---- MODULE Spec2Model ----
(***************************************************************************)
(* The image converter component (ImageConverter) in the versions the       *)
(* repository holds:                                                        *)
(*   Real    src/src/components/ImageConverter.tsx 171-358: handleConversion *)
(*           decodes and re-encodes every file (convertImage) and downloads *)
(*           the results;                                                   *)
(*   Sim     src/src/components/ImageConverter.tsx 360-680: handleConvert   *)
(*           marks the files 'converting', then 'done' one timer tick each; *)
(*   Logged  src/unnamed/part_001: Sim with logging, an unmount cleanup and *)
(*           a differently written progress formula.                        *)
(*   Old     src/src/components/ImageConverter.tsx 1-169: onDrop replaces   *)
(*           the files, handleConvert steps progress 0, 10, ..., 100 on a   *)
(*           timer and touches no file.                                     *)
(*   Plain   src/unnamed/part_002 63-196: onDrop appends files with a       *)
(*           preview, handleConvert is that of Old, the format select       *)
(*           offers png, jpg, webp and avif.                                *)
(* React state (useState) is the model's state.  A click or drop handler,   *)
(* and every continuation of an async handler after an await, runs to       *)
(* completion, so each is one action.  An async handler in flight keeps the *)
(* values of the render that created it (its closure): files, targetFormat. *)
(***************************************************************************)
EXTENDS Integers, Sequences, FiniteSets, TLC

\* Bounds of the model
MaxFiles == 2

MaxHandles == 2

MaxDrop == 2

MaxBatch == 11

MaxNameLen == 3

(***************************************************************************)
(* JavaScript Numbers.  progress is a Number (IEEE-754 binary64), and the   *)
(* three handlers compute it with one division and one multiplication,      *)
(* each rounded to nearest, ties to even.  A non-zero Number is             *)
(* [e, m] with m = <<h, mid, l>> the 53-bit significand in limbs of 18      *)
(* bits (h has 17), and value (h*2^36 + mid*2^18 + l) * 2^(e - 52).         *)
(***************************************************************************)
LimbBase == 262144

SigBits == 53

FZero == [e |-> 0, m |-> <<0, 0, 0>>]

RECURSIVE Pow2(_)
Pow2(n) == IF n = 0 THEN 1 ELSE 2 * Pow2(n - 1)

RECURSIVE BitLen(_)
BitLen(k) == IF k = 0 THEN 0 ELSE 1 + BitLen(k \div 2)

\* floor(log2(a / b)) for integers a, b > 0
RECURSIVE Exponent(_, _)
Exponent(a, b) ==
  IF a >= b THEN (IF a >= 2 * b THEN 1 + Exponent(a, 2 * b) ELSE 0)
  ELSE Exponent(2 * a, b) - 1

\* The Number nearest to p * 2^scale, p = <<p3, p2, p1, p0>> in limbs of 18
\* bits with at least 53 significant bits; sticky: a non-zero part of the
\* exact value lies below p's last bit.
RoundNearestEven(p, sticky, scale) ==
  LET len == IF p[1] > 0 THEN 3 * 18 + BitLen(p[1]) ELSE 2 * 18 + BitLen(p[2])
      s == len - SigBits
      pw == Pow2(s)
      up == LimbBase \div pw
      h == (p[1] % pw) * up + p[2] \div pw
      mid == (p[2] % pw) * up + p[3] \div pw
      l == (p[3] % pw) * up + p[4] \div pw
      dropped == p[4] % pw
      guard == s > 0 /\ dropped >= pw \div 2
      below == sticky \/ (s > 0 /\ dropped % (pw \div 2) # 0)
      roundUp == guard /\ (below \/ l % 2 = 1)
      l1 == IF roundUp THEN l + 1 ELSE l
      mid1 == mid + l1 \div LimbBase
      h1 == h + mid1 \div LimbBase
  IN IF h1 >= LimbBase \div 2
       THEN [e |-> scale + s + SigBits, m |-> <<LimbBase \div 4, 0, 0>>]
       ELSE [e |-> scale + s + SigBits - 1,
             m |-> <<h1, mid1 % LimbBase, l1 % LimbBase>>]

\* a / b for integers a >= 0, b > 0 (both exact as Numbers)
FDiv(a, b) ==
  IF a = 0 THEN FZero
  ELSE LET e == Exponent(a, b)
           na == IF e < 0 THEN a * Pow2(-e) ELSE a
           nb == IF e > 0 THEN b * Pow2(e) ELSE b
           t1 == na * (LimbBase \div 2)
           t2 == (t1 % nb) * LimbBase
           t3 == (t2 % nb) * LimbBase
       IN RoundNearestEven(<<0, t1 \div nb, t2 \div nb, t3 \div nb>>,
                           t3 % nb # 0, e - SigBits)

\* k * x for an integer 0 <= k < 2^13 (exact as a Number) and a Number x
FMulInt(k, x) ==
  IF k = 0 \/ x = FZero THEN FZero
  ELSE LET t0 == x.m[3] * k
           t1 == x.m[2] * k + t0 \div LimbBase
           t2 == x.m[1] * k + t1 \div LimbBase
       IN RoundNearestEven(<<t2 \div LimbBase, t2 % LimbBase,
                             t1 % LimbBase, t0 % LimbBase>>,
                           FALSE, x.e - (SigBits - 1))

FromInt(k) == FDiv(k, 1)

FLess(x, y) ==
  IF y = FZero THEN FALSE
  ELSE IF x = FZero THEN TRUE
  ELSE IF x.e # y.e THEN x.e < y.e
  ELSE \E j \in 1..3 : x.m[j] < y.m[j] /\ \A h \in 1..(j - 1) : x.m[h] = y.m[h]

FLeq(x, y) == x = y \/ FLess(x, y)

(***************************************************************************)
(* State                                                                    *)
(***************************************************************************)
VARIABLES
  variant,       \* which version of the component is mounted
  mounted,       \* FALSE once React has unmounted the component
  files,         \* useState files: the tracked files, in array order
  nextHandle,    \* the next blob URL that URL.createObjectURL hands out
  revoked,       \* per allocated blob URL: the URL.revokeObjectURL calls on it
  targetFormat,  \* useState targetFormat / format
  converting,    \* useState converting / isConverting
  progress,      \* useState progress
  runs,          \* the calls of handleConversion / handleConvert in flight
  ended,         \* what the run that ended last did: the number of its files,
                 \* the downloads it triggered, the index whose file failed
  pendingClick,  \* the second click of a double click on a remove button,
                 \* waiting in the browser's event queue: the index of the
                 \* button and the preview of the file it showed
  quality,       \* useState quality
  maxWidth,      \* useState maxWidth
  maxHeight      \* useState maxHeight

vars == <<variant, mounted, files, nextHandle, revoked, targetFormat,
          converting, progress, runs, ended, pendingClick, quality, maxWidth,
          maxHeight>>

\* The settings beside the format
settings == <<quality, maxWidth, maxHeight>>

Real == "handleConversion"

Sim == "handleConvert"

Logged == "handleConvertLogged"

Old == "handleConvertOld"

Plain == "handleConvertPlain"

Variants == {Real, Sim, Logged}

Formats == {"jpeg", "png", "webp"}

\* What the browser will do with a file's bytes: decode and encode them, fail
\* to decode them (img.onerror), or fail to encode them (toBlob gives null).
Kinds == {"ok", "undecodable", "unencodable"}

NoRun == [n |-> 0, delivered |-> <<>>, failedAt |-> 0]

NoClick == [index |-> 0, h |-> 0]

\* The sequence a, a+1, ..., b
Range(a, b) == [j \in 1..(b - a + 1) |-> a + j - 1]

\* The preview blob URLs of fs, in order
Handles(fs) == [j \in 1..Len(fs) |-> fs[j].h]

\* URL.revokeObjectURL on each of hs, in order
Revoke(rv, hs) ==
  [h \in DOMAIN rv \cup {hs[j] : j \in 1..Len(hs)} |->
     (IF h \in DOMAIN rv THEN rv[h] ELSE 0)
       + Cardinality({j \in 1..Len(hs) : hs[j] = h})]

\* The setters of a component that is unmounted change nothing.
SetState(new, old) == IF mounted THEN new ELSE old

(***************************************************************************)
(* Intake, removal, clear, teardown, settings                               *)
(***************************************************************************)
\* A File as the user submits it: kind and width x height are what the
\* browser makes of its bytes, name (a string, one character per element),
\* size (bytes) and type are the File's own attributes.
Photo ==
  [kind |-> "ok", name |-> <<"a", ".", "p", "n", "g">>, size |-> 1024,
   type |-> "image/png", width |-> 1600, height |-> 1200]

\* The Files of a drop in Spec: the photo, or bytes the browser cannot decode
\* or cannot encode
DropFiles == {[Photo EXCEPT !.kind = k] : k \in Kinds}

\* file.name of an object that has no name
Undefined == <<"undefined">>

\* useState(1920), useState(1080): the maxWidth and maxHeight of the versions
\* that have the settings
DefaultMaxWidth == 1920

DefaultMaxHeight == 1080

\* useState(80)
DefaultQuality == 80

\* A Number that an <input type="number"> can hold is a decimal fraction:
\* num / den with den a power of ten and no common factor ten.
Whole(k) == [num |-> k, den |-> 1]

\* The characters of the digits, with their values
DigitOf ==
  [c \in {"0", "1", "2", "3", "4", "5", "6", "7", "8", "9"} |->
     CASE c = "0" -> 0 [] c = "1" -> 1 [] c = "2" -> 2 [] c = "3" -> 3
       [] c = "4" -> 4 [] c = "5" -> 5 [] c = "6" -> 6 [] c = "7" -> 7
       [] c = "8" -> 8 [] c = "9" -> 9]

IsDigits(s) == \A j \in 1..Len(s) : s[j] \in DOMAIN DigitOf

RECURSIVE DigitsValue(_)
DigitsValue(s) ==
  IF s = <<>> THEN 0
  ELSE 10 * DigitsValue(SubSeq(s, 1, Len(s) - 1)) + DigitOf[s[Len(s)]]

\* The text without its sign
Unsigned(s) == IF s # <<>> /\ s[1] = "-" THEN Tail(s) ELSE s

\* The position of the '.' of s, 0 if it has none
DotAt(s) ==
  IF \E j \in 1..Len(s) : s[j] = "."
    THEN CHOOSE j \in 1..Len(s) : s[j] = "." /\ \A x \in 1..(j - 1) : s[x] # "."
    ELSE 0

\* e.target.value of an <input type="number">: the text typed if it is a
\* valid floating-point number (an optional '-', then digits, or digits, '.'
\* and digits, or '.' and digits), the empty string otherwise.
InputValue(typed) ==
  LET body == Unsigned(typed)
      p == DotAt(body)
      whole == IF p = 0 THEN body ELSE SubSeq(body, 1, p - 1)
      frac == IF p = 0 THEN <<>> ELSE SubSeq(body, p + 1, Len(body))
      valid == /\ IsDigits(whole)
               /\ IsDigits(frac)
               /\ IF p = 0 THEN whole # <<>> ELSE frac # <<>>
  IN IF valid THEN typed ELSE <<>>

\* x without the factors ten that num and den share
RECURSIVE Reduced(_)
Reduced(x) ==
  IF x.den > 1 /\ x.num % 10 = 0
    THEN Reduced([num |-> x.num \div 10, den |-> x.den \div 10])
    ELSE x

RECURSIVE Pow10(_)
Pow10(n) == IF n = 0 THEN 1 ELSE 10 * Pow10(n - 1)

\* Number(value) for the value of an <input type="number">: 0 for the empty
\* string
ToNumber(value) ==
  LET body == Unsigned(value)
      p == DotAt(body)
      whole == IF p = 0 THEN body ELSE SubSeq(body, 1, p - 1)
      frac == IF p = 0 THEN <<>> ELSE SubSeq(body, p + 1, Len(body))
      den == Pow10(Len(frac))
      abs == DigitsValue(whole) * den + DigitsValue(frac)
  IN Reduced([num |-> IF body # value THEN -abs ELSE abs, den |-> den])

\* value < 1
LessThanOne(x) == x.num < x.den

\* Object.assign(file, {preview: URL.createObjectURL(file), status: 'pending'});
\* ImageFile of the Real version and the file of the Plain version have no
\* status, the File of the Old version neither status nor preview (h = 0).
NewFile(h, file) ==
  [h |-> IF variant = Old THEN 0 ELSE h,
   kind |-> file.kind, name |-> file.name, size |-> file.size,
   type |-> file.type, width |-> file.width, height |-> file.height,
   status |-> IF variant \in {Real, Old, Plain} THEN "none" ELSE "pending"]

\* { ...file }: the copy has the own enumerable properties of the File,
\* preview and status; name, size and type are getters of File.prototype and
\* are not copied.
Spread(file) ==
  [file EXCEPT !.name = Undefined, !.size = -1, !.type = "undefined"]

Appended(prev, newFiles) == prev \o newFiles

\* accept: {"image/*": [".png", ".jpeg", ".jpg", ".webp"]}: useDropzone hands
\* onDrop the files whose type is an image type or whose name ends with one
\* of the extensions.
ImageTypes == {"image/png", "image/jpeg", "image/webp", "image/gif"}

Extensions ==
  {<<".", "p", "n", "g">>, <<".", "j", "p", "e", "g">>, <<".", "j", "p", "g">>,
   <<".", "w", "e", "b", "p">>}

EndsWith(name, ext) ==
  /\ Len(name) >= Len(ext)
  /\ SubSeq(name, Len(name) - Len(ext) + 1, Len(name)) = ext

Accepts(file) ==
  \/ file.type \in ImageTypes
  \/ \E ext \in Extensions : EndsWith(file.name, ext)

Accepted(candidates) == SelectSeq(candidates, Accepts)

\* file.size > 10 * 1024 * 1024
MaxFileSize == 10 * 1024 * 1024

\* setFiles(acceptedFiles) of the Old version
Replaced(prev, newFiles) == newFiles

onDrop(accepted) ==
  /\ mounted
  /\ IF variant = Old
       THEN /\ Len(accepted) <= MaxFiles
            /\ files' = Replaced(files, [j \in 1..Len(accepted) |->
                                           NewFile(0, accepted[j])])
            /\ UNCHANGED <<nextHandle, revoked>>
       ELSE /\ Len(files) + Len(accepted) <= MaxFiles
            /\ nextHandle + Len(accepted) - 1 <= MaxHandles
            /\ files' = Appended(files, [j \in 1..Len(accepted) |->
                                           NewFile(nextHandle + j - 1, accepted[j])])
            /\ nextHandle' = nextHandle + Len(accepted)
            /\ revoked' = revoked @@
                 [h \in nextHandle..(nextHandle + Len(accepted) - 1) |-> 0]
  /\ UNCHANGED <<settings, pendingClick, variant, mounted, targetFormat, converting, progress, runs, ended>>

\* Mutant of Spliced: the splice is forgotten
SplicedNothing(fs, index) == fs

\* newFiles.splice(index, 1)
Spliced(fs, index) == SubSeq(fs, 1, index - 1) \o SubSeq(fs, index + 1, Len(fs))

\* The updater that removeFile(index) passes to setFiles
RemovedAt(index) ==
  /\ revoked' = Revoke(revoked, <<files[index].h>>)
  /\ files' = Spliced(files, index)
  /\ UNCHANGED <<settings, variant, mounted, nextHandle, targetFormat,
                 converting, progress, runs, ended>>

\* The remove button of the file rendered at index
removeFile(index) ==
  /\ mounted
  /\ variant # Old
  /\ index \in 1..Len(files)
  /\ RemovedAt(index)
  /\ UNCHANGED pendingClick

\* A double click on the remove button of the file rendered at index: the
\* first click is handled and React renders the new list, the second click
\* is still to be dispatched.
removeFileDoubleClick(index) ==
  /\ mounted
  /\ variant # Old
  /\ index \in 1..Len(files)
  /\ pendingClick = NoClick
  /\ quality = DefaultQuality
  /\ maxWidth = Whole(DefaultMaxWidth)
  /\ maxHeight = Whole(DefaultMaxHeight)
  /\ RemovedAt(index)
  /\ pendingClick' = [index |-> index, h |-> files[index].h]

\* The second click is dispatched to what is rendered at its position now:
\* the remove button of the file at the same index of the list, if the list
\* still has one (onClick={() => removeFile(index)}).
SecondClick ==
  /\ pendingClick # NoClick
  /\ pendingClick' = NoClick
  /\ IF mounted /\ pendingClick.index \in 1..Len(files)
       THEN RemovedAt(pendingClick.index)
       ELSE UNCHANGED <<settings, variant, mounted, files, nextHandle, revoked,
                        targetFormat, converting, progress, runs, ended>>

\* 'Clear all' is rendered when files.length > 1 (Sim, Logged)
ClearAll ==
  /\ mounted
  /\ variant \in {Sim, Logged}
  /\ Len(files) > 1
  /\ revoked' = Revoke(revoked, Handles(files))
  /\ files' = <<>>
  /\ UNCHANGED <<settings, pendingClick, variant, mounted, nextHandle, targetFormat, converting,
                 progress, runs, ended>>

\* The files the unmount cleanup iterates: the effect has no dependencies, so
\* its closure holds the files of the first render, useState([]).
CleanupFiles == <<>>

Unmount ==
  /\ mounted
  /\ mounted' = FALSE
  /\ revoked' = IF variant = Logged THEN Revoke(revoked, Handles(CleanupFiles))
                ELSE revoked
  /\ UNCHANGED <<settings, pendingClick, variant, files, nextHandle, targetFormat, converting,
                 progress, runs, ended>>

\* The values that the format control of the mounted version offers:
\* formatOptions, or the <option>s of the <select>
Options ==
  IF variant = Plain THEN {"png", "jpg", "webp", "avif"} ELSE Formats

setTargetFormat(f) ==
  /\ mounted
  /\ f \in Options
  /\ f # targetFormat
  /\ targetFormat' = f
  /\ UNCHANGED <<settings, pendingClick, variant, mounted, files, nextHandle, revoked, converting,
                 progress, runs, ended>>

\* The versions with the quality slider and the Max Width / Max Height inputs
WithSettings == {Old, Sim, Logged}

\* <Slider min={1} max={100} step={1}>
SliderMin == 1

SliderMax == 100

\* onValueChange={([value]) => setQuality(value)}
setQuality(value) ==
  /\ mounted
  /\ variant \in WithSettings
  /\ value \in SliderMin..SliderMax
  /\ value # quality
  /\ quality' = value
  /\ UNCHANGED <<maxWidth, maxHeight, pendingClick, variant, mounted, files,
                 nextHandle, revoked, targetFormat, converting, progress, runs,
                 ended>>

\* The state after the onChange of a Max Width / Max Height input that holds
\* the text typed: setMaxWidth(Number(e.target.value)), in the Logged
\* version after if (value < 1) return
AfterChange(typed, old) ==
  LET value == ToNumber(InputValue(typed))
  IN IF variant = Logged /\ LessThanOne(value) THEN old ELSE value

onChangeMaxWidth(typed) ==
  /\ mounted
  /\ variant \in WithSettings
  /\ maxWidth' = AfterChange(typed, maxWidth)
  /\ UNCHANGED <<quality, maxHeight, pendingClick, variant, mounted, files,
                 nextHandle, revoked, targetFormat, converting, progress, runs,
                 ended>>

onChangeMaxHeight(typed) ==
  /\ mounted
  /\ variant \in WithSettings
  /\ maxHeight' = AfterChange(typed, maxHeight)
  /\ UNCHANGED <<quality, maxWidth, pendingClick, variant, mounted, files,
                 nextHandle, revoked, targetFormat, converting, progress, runs,
                 ended>>

(***************************************************************************)
(* The batch run                                                            *)
(***************************************************************************)
\* Mutant of ButtonEnabled: the button without its disabled attribute
ButtonNeverDisabled == Len(files) > 0

\* The convert button fires its handler unless it is disabled (or not rendered)
ButtonEnabled ==
  IF variant = Real THEN ~(Len(files) = 0 \/ converting)
  ELSE Len(files) > 0 /\ ~converting

\* Mutant of LoopStarts: every remaining convertImage is called at once, as
\* with files.map(convertImage) and one Promise.all
StartsAllRemaining(i, n) == Range(i, n)

\* The indices whose convertImage the loop calls when it reaches index i of n
LoopStarts(i, n) == <<i>>

\* `image/${targetFormat}` and `${originalName}.${targetFormat}` read the
\* targetFormat of the render whose handleConversion is running.
EncodeFormat(r) == r.fmt

\* Mutant of NameFormat: the name reads the live setting (as through a ref)
NameFormatLive(r) == targetFormat

NameFormat(r) == r.fmt

\* convertImage(file): img.src = file.preview starts the load; a revoked blob
\* URL no longer resolves.
StartTransforms(r) ==
  LET js == LoopStarts(r.i, Len(r.snap))
  IN [r EXCEPT
        !.started = @ \o js,
        !.flight = @ @@ [j \in {js[x] : x \in 1..Len(js)} |->
                           [phase |-> "load",
                            urlOk |-> revoked[r.snap[j].h] = 0,
                            enc |-> "", canvas |-> <<0, 0>>]]]

Removed(rs, k) == SubSeq(rs, 1, k - 1) \o SubSeq(rs, k + 1, Len(rs))

\* setProgress(((i + 1) / files.length) * 100)
ProgressReal(i, n) == FMulInt(100, FDiv(i, n))

\* setProgress((i + 1) * (100 / files.length))
ProgressSim(i, n) == FMulInt(i, FDiv(100, n))

\* const newProgress = ((i + 1) * 100) / files.length
ProgressLogged(i, n) == FDiv(i * 100, n)

\* The argument of setProgress after file i of n, for every run of up to
\* MaxBatch files and each of the three handlers, computed once
ProgressAfter ==
  [n \in 1..MaxBatch |->
     [i \in 1..n |-> [Real |-> ProgressReal(i, n), Sim |-> ProgressSim(i, n),
                       Logged |-> ProgressLogged(i, n)]]]

\* Mutant of CanvasSize: the canvas always has the size of the default
\* bounds, so a smaller image is stretched
CanvasStretched(img) == <<DefaultMaxWidth, DefaultMaxHeight>>

\* canvas.width = img.width; canvas.height = img.height
CanvasSize(img) == <<img.width, img.height>>

\* name.split('.'), scanning name from character j: segs are the segments
\* found so far, the last one still open
RECURSIVE SplitFrom(_, _, _)
SplitFrom(name, j, segs) ==
  IF j > Len(name) THEN segs
  ELSE IF name[j] = "."
         THEN SplitFrom(name, j + 1, Append(segs, <<>>))
         ELSE SplitFrom(name, j + 1,
                        [segs EXCEPT ![Len(segs)] = Append(@, name[j])])

Split(name) == SplitFrom(name, 1, << <<>> >>)

\* Mutant of originalName: the name without its extension, as
\* name.slice(0, name.lastIndexOf('.'))
NameWithoutExtension(name) ==
  LET dots == {j \in 1..Len(name) : name[j] = "."}
  IN IF dots = {} THEN SubSeq(name, 1, Len(name) - 1)
     ELSE SubSeq(name, 1, (CHOOSE j \in dots : \A x \in dots : x <= j) - 1)

\* const originalName = file.name.split('.')[0]
originalName(name) == Split(name)[1]

\* `${originalName}.${targetFormat}`: the characters of originalName, '.',
\* and the format as one element
DownloadName(name, format) == originalName(name) \o <<".", format>>

\* handleConversion up to its first await
handleConversion ==
  /\ mounted
  /\ variant = Real
  /\ ButtonEnabled
  /\ Len(files) # 0
  /\ converting' = TRUE
  /\ progress' = FZero
  /\ runs' = Append(runs, StartTransforms(
                 [snap |-> files, fmt |-> targetFormat, i |-> 1, pc |-> "convertImage",
                  started |-> <<>>, flight |-> [j \in {} |-> 0], converted |-> <<>>]))
  /\ UNCHANGED <<settings, pendingClick, variant, mounted, files, nextHandle, revoked, targetFormat, ended>>

\* img.onload: draw on a canvas and call canvas.toBlob
ImgLoad(k) ==
  /\ k \in 1..Len(runs)
  /\ \E j \in DOMAIN runs[k].flight :
       /\ runs[k].flight[j].phase = "load"
       /\ runs[k].flight[j].urlOk
       /\ runs[k].snap[j].kind # "undecodable"
       /\ runs' = [runs EXCEPT ![k].flight[j] =
                     [phase |-> "encode", urlOk |-> TRUE, enc |-> EncodeFormat(runs[k]),
                      canvas |-> CanvasSize(runs[k].snap[j])]]
  /\ UNCHANGED <<settings, pendingClick, variant, mounted, files, nextHandle, revoked, targetFormat,
                 converting, progress, ended>>

\* Mutant of ConvertingAfterFinally: the flag is not reset when the run ends
ConvertingLeftSet == TRUE

\* finally { setConverting(false); ... }
ConvertingAfterFinally == FALSE

\* Mutant of ProgressAfterFinally: the bar is left full when the run ends
ProgressLeftFull == FromInt(100)

\* finally { ...; setProgress(0); }
ProgressAfterFinally == FZero

\* The downloads after the loop
Delivered(converted) == converted

\* The toBlob callback with a blob: resolve, then handleConversion's loop body
\* after the await, the next convertImage or the downloads and the finally.
BlobReady(k) ==
  /\ k \in 1..Len(runs)
  /\ LET r == runs[k]
         n == Len(r.snap)
         conv == Append(r.converted,
                        [h |-> r.snap[r.i].h, type |-> r.flight[r.i].enc,
                         ext |-> NameFormat(r),
                         name |-> DownloadName(r.snap[r.i].name, NameFormat(r)),
                         canvas |-> r.flight[r.i].canvas])
     IN /\ r.pc = "convertImage"
        /\ r.i \in DOMAIN r.flight
        /\ r.flight[r.i].phase = "encode"
        /\ r.snap[r.i].kind # "unencodable"
        /\ IF r.i < n
             THEN /\ runs' = [runs EXCEPT ![k] = StartTransforms(
                                [r EXCEPT !.converted = conv, !.i = r.i + 1,
                                          !.flight = [j \in DOMAIN r.flight \ {r.i} |->
                                                        r.flight[j]]])]
                  /\ progress' = SetState(ProgressAfter[n][r.i].Real, progress)
                  /\ UNCHANGED <<converting, ended>>
             ELSE /\ runs' = Removed(runs, k)
                  /\ ended' = [n |-> Len(r.snap),
                               delivered |-> Delivered(conv), failedAt |-> 0]
                  /\ converting' = SetState(ConvertingAfterFinally, converting)
                  /\ progress' = SetState(ProgressAfterFinally, progress)
  /\ UNCHANGED <<settings, pendingClick, variant, mounted, files, nextHandle, revoked, targetFormat>>

\* A rejected convertImage leaves the loop: catch, then finally
Rejected(k) ==
  /\ runs' = Removed(runs, k)
  /\ ended' = [n |-> Len(runs[k].snap),
               delivered |-> <<>>, failedAt |-> runs[k].i]
  /\ converting' = SetState(ConvertingAfterFinally, converting)
  /\ progress' = SetState(ProgressAfterFinally, progress)
  /\ UNCHANGED <<settings, pendingClick, variant, mounted, files, nextHandle, revoked, targetFormat>>

\* img.onerror
ImgError(k) ==
  /\ k \in 1..Len(runs)
  /\ runs[k].pc = "convertImage"
  /\ runs[k].i \in DOMAIN runs[k].flight
  /\ runs[k].flight[runs[k].i].phase = "load"
  /\ ~(runs[k].flight[runs[k].i].urlOk /\ runs[k].snap[runs[k].i].kind # "undecodable")
  /\ Rejected(k)

\* The toBlob callback with null
BlobNull(k) ==
  /\ k \in 1..Len(runs)
  /\ runs[k].pc = "convertImage"
  /\ runs[k].i \in DOMAIN runs[k].flight
  /\ runs[k].flight[runs[k].i].phase = "encode"
  /\ runs[k].snap[runs[k].i].kind = "unencodable"
  /\ Rejected(k)

\* prev.map(file => ({ ...file, status: 'converting' }))
MarkConverting(prev) ==
  IF prev = <<>> THEN <<>>
  ELSE [j \in 1..Len(prev) |-> [Spread(prev[j]) EXCEPT !.status = "converting"]]

\* prev.map((file, index) => index === i ? { ...file, status: 'done' } : file)
MarkDone(prev, i) ==
  IF prev = <<>> THEN <<>>
  ELSE [j \in 1..Len(prev) |->
          IF j = i THEN [Spread(prev[j]) EXCEPT !.status = "done"] ELSE prev[j]]

\* handleConvert up to its first await
handleConvert ==
  /\ mounted
  /\ variant \in {Sim, Logged}
  /\ ButtonEnabled
  /\ converting' = TRUE
  /\ progress' = FZero
  /\ files' = MarkConverting(files)
  /\ runs' = Append(runs,
                 [snap |-> files, fmt |-> targetFormat, i |-> 1, pc |-> "timer",
                  started |-> <<>>, flight |-> [j \in {} |-> 0], converted |-> <<>>])
  /\ UNCHANGED <<settings, pendingClick, variant, mounted, nextHandle, revoked, targetFormat, ended>>

\* The 500 ms timer of handleConvert's loop fires: the loop body after the
\* await, then the next timer or setIsConverting(false).
TimerFires(k) ==
  /\ k \in 1..Len(runs)
  /\ LET r == runs[k]
         n == Len(r.snap)
     IN /\ r.pc = "timer"
        /\ files' = SetState(MarkDone(files, r.i), files)
        /\ progress' = SetState(IF variant = Sim THEN ProgressAfter[n][r.i].Sim
                                ELSE ProgressAfter[n][r.i].Logged, progress)
        /\ IF r.i < n
             THEN /\ runs' = [runs EXCEPT ![k].i = r.i + 1]
                  /\ UNCHANGED <<converting, ended>>
             ELSE /\ runs' = Removed(runs, k)
                  /\ converting' = SetState(FALSE, converting)
                  /\ ended' = [n |-> Len(r.snap),
                               delivered |-> <<>>, failedAt |-> 0]
  /\ UNCHANGED <<settings, pendingClick, variant, mounted, nextHandle, revoked, targetFormat>>

\* handleConvert of the Old and Plain versions up to its first await: the
\* loop variable i of for (let i = 0; i <= 100; i += 10) is the run's i.
handleConvertOld ==
  /\ mounted
  /\ variant \in {Old, Plain}
  /\ ButtonEnabled
  /\ converting' = TRUE
  /\ progress' = FZero
  /\ runs' = Append(runs,
                 [snap |-> files, fmt |-> targetFormat, i |-> 0, pc |-> "step",
                  started |-> <<>>, flight |-> [j \in {} |-> 0], converted |-> <<>>])
  /\ UNCHANGED <<settings, pendingClick, variant, mounted, files, nextHandle, revoked, targetFormat, ended>>

\* The 100 ms timer of the Old and Plain versions' loop fires: setProgress(i), then the
\* next timer or setIsConverting(false).
StepFires(k) ==
  /\ k \in 1..Len(runs)
  /\ LET r == runs[k]
     IN /\ r.pc = "step"
        /\ progress' = SetState(FromInt(r.i), progress)
        /\ IF r.i + 10 <= 100
             THEN /\ runs' = [runs EXCEPT ![k].i = r.i + 10]
                  /\ UNCHANGED <<converting, ended>>
             ELSE /\ runs' = Removed(runs, k)
                  /\ converting' = SetState(FALSE, converting)
                  /\ ended' = [n |-> Len(r.snap),
                               delivered |-> <<>>, failedAt |-> 0]
  /\ UNCHANGED <<settings, pendingClick, variant, mounted, files, nextHandle, revoked, targetFormat>>

(***************************************************************************)
(* Specifications                                                           *)
(***************************************************************************)
Init ==
  /\ variant \in Variants
  /\ mounted = TRUE
  /\ files = <<>>
  /\ nextHandle = 1
  /\ revoked = [h \in {} |-> 0]
  /\ targetFormat = "jpeg"
  /\ converting = FALSE
  /\ progress = FZero
  /\ runs = <<>>
  /\ ended = NoRun
  /\ pendingClick = NoClick
  /\ quality = DefaultQuality
  /\ maxWidth = Whole(DefaultMaxWidth)
  /\ maxHeight = Whole(DefaultMaxHeight)

Drops == UNION {[1..n -> DropFiles] : n \in 1..MaxDrop}

Next ==
  \/ \E accepted \in Drops : onDrop(accepted)
  \/ \E index \in 1..MaxFiles : removeFile(index)
  \/ ClearAll
  \/ Unmount
  \/ \E f \in Formats : setTargetFormat(f)
  \/ handleConversion
  \/ handleConvert
  \/ \E k \in 1..Len(runs) : ImgLoad(k)
  \/ \E k \in 1..Len(runs) : BlobReady(k)
  \/ \E k \in 1..Len(runs) : ImgError(k)
  \/ \E k \in 1..Len(runs) : BlobNull(k)
  \/ \E k \in 1..Len(runs) : TimerFires(k)

Spec == Init /\ [][Next]_vars

\* The timer or image callback that a run in flight waits for
Callback ==
  \/ \E k \in 1..Len(runs) : ImgLoad(k)
  \/ \E k \in 1..Len(runs) : BlobReady(k)
  \/ \E k \in 1..Len(runs) : ImgError(k)
  \/ \E k \in 1..Len(runs) : BlobNull(k)
  \/ \E k \in 1..Len(runs) : TimerFires(k)

\* Every operation that adds or removes files, starts a run or tears the
\* component down, with the callbacks of the runs: Next without the format
\* select, which decides nothing about how far a run gets
NextLive ==
  \/ \E accepted \in Drops : onDrop(accepted)
  \/ \E index \in 1..MaxFiles : removeFile(index)
  \/ ClearAll
  \/ Unmount
  \/ handleConversion
  \/ handleConvert
  \/ Callback

\* Every timer that is set fires and every image that is loading or encoding
\* calls back
SpecLive == Init /\ [][NextLive]_vars /\ WF_vars(Callback)

\* Spec with double clicks on the remove buttons
NextClicks ==
  \/ Next
  \/ \E index \in 1..MaxFiles : removeFileDoubleClick(index)
  \/ SecondClick

SpecClicks == Init /\ [][NextClicks]_vars

\* The intake of files of every size and type through the dropzone, with
\* removal, 'Clear all' and teardown
Candidates ==
  {[Photo EXCEPT !.size = z, !.type = t[1], !.name = t[2]] :
     z \in {1024, MaxFileSize, MaxFileSize + 1},
     t \in {<<"image/png", <<"a", ".", "p", "n", "g">> >>,
            <<"", <<"a", ".", "j", "p", "g">> >>,
            <<"application/pdf", <<"a", ".", "p", "d", "f">> >>}}

CandidateDrops == UNION {[1..n -> Candidates] : n \in 1..MaxDrop}

NextIntake ==
  \/ \E candidates \in CandidateDrops : onDrop(Accepted(candidates))
  \/ \E index \in 1..MaxFiles : removeFile(index)
  \/ ClearAll
  \/ Unmount

SpecIntake == Init /\ [][NextIntake]_vars

\* The Old version: drops, the run and the teardown (its format select
\* is read by no handler)
InitOld ==
  /\ variant = Old
  /\ mounted = TRUE
  /\ files = <<>>
  /\ nextHandle = 1
  /\ revoked = [h \in {} |-> 0]
  /\ targetFormat = "jpeg"
  /\ converting = FALSE
  /\ progress = FZero
  /\ runs = <<>>
  /\ ended = NoRun
  /\ pendingClick = NoClick
  /\ quality = DefaultQuality
  /\ maxWidth = Whole(DefaultMaxWidth)
  /\ maxHeight = Whole(DefaultMaxHeight)

NextOld ==
  \/ \E accepted \in Drops : onDrop(accepted)
  \/ Unmount
  \/ handleConvertOld
  \/ \E k \in 1..Len(runs) : StepFires(k)

SpecOld == InitOld /\ [][NextOld]_vars

\* One batch of 1..MaxBatch decodable files, dropped at once, and the runs
\* over it with no other event in between.
InitBatch ==
  /\ variant \in Variants
  /\ mounted = TRUE
  /\ \E n \in 1..MaxBatch :
       /\ files = [j \in 1..n |-> NewFile(j, Photo)]
       /\ nextHandle = n + 1
       /\ revoked = [h \in 1..n |-> 0]
  /\ targetFormat = "jpeg"
  /\ converting = FALSE
  /\ progress = FZero
  /\ runs = <<>>
  /\ ended = NoRun
  /\ pendingClick = NoClick
  /\ quality = DefaultQuality
  /\ maxWidth = Whole(DefaultMaxWidth)
  /\ maxHeight = Whole(DefaultMaxHeight)

NextBatch ==
  \/ handleConversion
  \/ handleConvert
  \/ \E k \in 1..Len(runs) : ImgLoad(k)
  \/ \E k \in 1..Len(runs) : BlobReady(k)
  \/ \E k \in 1..Len(runs) : TimerFires(k)

SpecBatch == InitBatch /\ [][NextBatch]_vars

\* One decodable file and its conversion by handleConversion, for every file
\* name of up to MaxNameLen characters, image size and target format.
Chars == {"a", "b", "."}

Names == UNION {[1..n -> Chars] : n \in 1..MaxNameLen}

Sizes == {<<640, 480>>, <<800, 600>>, <<1600, 1200>>, <<1920, 1080>>,
          <<3000, 1000>>, <<1000, 3000>>}

TransformFiles ==
  {[Photo EXCEPT !.name = n, !.width = d[1], !.height = d[2]] :
     n \in Names, d \in Sizes}

InitTransform ==
  /\ variant = Real
  /\ mounted = TRUE
  /\ \E f \in TransformFiles : files = <<NewFile(1, f)>>
  /\ nextHandle = 2
  /\ revoked = [h \in 1..1 |-> 0]
  /\ targetFormat \in Formats
  /\ converting = FALSE
  /\ progress = FZero
  /\ runs = <<>>
  /\ ended = NoRun
  /\ pendingClick = NoClick
  /\ quality = DefaultQuality
  /\ maxWidth = Whole(DefaultMaxWidth)
  /\ maxHeight = Whole(DefaultMaxHeight)

NextTransform ==
  \/ handleConversion
  \/ \E k \in 1..Len(runs) : ImgLoad(k)
  \/ \E k \in 1..Len(runs) : BlobReady(k)

SpecTransform == InitTransform /\ [][NextTransform]_vars

\* The settings controls of every version, with nothing else going on
Typed ==
  {<<>>, <<"0">>, <<"1">>, <<"-", "1">>, <<"1", ".", "5">>, <<"5", ".">>,
   <<"8", "0", "0">>}

InitSettings ==
  /\ variant \in Variants \cup {Old, Plain}
  /\ mounted = TRUE
  /\ files = <<>>
  /\ nextHandle = 1
  /\ revoked = [h \in {} |-> 0]
  /\ targetFormat = IF variant = Plain THEN "png" ELSE "jpeg"
  /\ converting = FALSE
  /\ progress = FZero
  /\ runs = <<>>
  /\ ended = NoRun
  /\ pendingClick = NoClick
  /\ quality = DefaultQuality
  /\ maxWidth = Whole(DefaultMaxWidth)
  /\ maxHeight = Whole(DefaultMaxHeight)

NextSettings ==
  \/ \E f \in Options : setTargetFormat(f)
  \/ \E value \in SliderMin..SliderMax : setQuality(value)
  \/ \E typed \in Typed : onChangeMaxWidth(typed)
  \/ \E typed \in Typed : onChangeMaxHeight(typed)

SpecSettings == InitSettings /\ [][NextSettings]_vars

\* Every version: drops, removals, 'Clear all', and the runs that change the
\* tracked files' statuses or step the progress
InitDrops ==
  /\ variant \in Variants \cup {Old, Plain}
  /\ mounted = TRUE
  /\ files = <<>>
  /\ nextHandle = 1
  /\ revoked = [h \in {} |-> 0]
  /\ targetFormat = IF variant = Plain THEN "png" ELSE "jpeg"
  /\ converting = FALSE
  /\ progress = FZero
  /\ runs = <<>>
  /\ ended = NoRun
  /\ pendingClick = NoClick
  /\ quality = DefaultQuality
  /\ maxWidth = Whole(DefaultMaxWidth)
  /\ maxHeight = Whole(DefaultMaxHeight)

NextDrops ==
  \/ \E accepted \in Drops : onDrop(accepted)
  \/ \E index \in 1..MaxFiles : removeFile(index)
  \/ ClearAll
  \/ handleConvert
  \/ handleConvertOld
  \/ \E k \in 1..Len(runs) : TimerFires(k)
  \/ \E k \in 1..Len(runs) : StepFires(k)

SpecDrops == InitDrops /\ [][NextDrops]_vars

(***************************************************************************)
(* Claims                                                                   *)
(***************************************************************************)
\* The step in which the one run in flight ends
RunEnds == Len(runs) = 1 /\ runs' = <<>>

DeliveredHandles(e) == {e.delivered[d].h : d \in 1..Len(e.delivered)}

\* C1 (as claimed): when a run of handleConversion ends, every file of the
\* batch that the browser can decode and encode, and whose blob URL is still
\* valid, was visited and converted (its blob is among the downloads), also
\* when another file of the batch failed.
C1_FailureIsolation ==
  [][(variant = Real /\ RunEnds) =>
       \A j \in 1..Len(runs[1].snap) :
         (runs[1].snap[j].kind = "ok" /\ revoked[runs[1].snap[j].h] = 0)
           => /\ \E x \in 1..Len(runs[1].started) : runs[1].started[x] = j
              /\ runs[1].snap[j].h \in DeliveredHandles(ended')]_vars

\* C2 (as claimed): while a run is in flight progress never decreases, and
\* when handleConvert has finished its last file (the component still
\* mounted) progress is exactly 100.
C2_ProgressMonotoneThenExactly100 ==
  [][/\ (Len(runs) = 1 /\ Len(runs') = 1) => FLeq(progress, progress')
     /\ (variant \in {Sim, Logged} /\ mounted /\ RunEnds)
          => progress' = FromInt(100)]_vars

\* C3 (as claimed): once the component is unmounted, every blob URL that
\* onDrop allocated has been revoked.
C3_NoHandleLeakedAfterUnmount ==
  ~mounted => \A h \in 1..(nextHandle - 1) : h \in DOMAIN revoked /\ revoked[h] >= 1

\* C4: URL.revokeObjectURL is called at most once for each blob URL that
\* onDrop allocated, and never for one that was not allocated.
C4_RevokedAtMostOnce ==
  /\ DOMAIN revoked = 1..(nextHandle - 1)
  /\ \A h \in DOMAIN revoked : revoked[h] <= 1

\* C4 witness: both blob URLs of a drop were revoked (by removeFile or
\* 'Clear all') and the component with the unmount cleanup was then torn down.
C4_Witness ==
  /\ variant = Logged
  /\ ~mounted
  /\ nextHandle > 2
  /\ \A h \in DOMAIN revoked : revoked[h] = 1

\* C5: a run of handleConversion has at most one convertImage in flight, that
\* of the file at its loop index, having started the files in array order and
\* completed every earlier one.
C5_SequentialInOrder ==
  \A k \in 1..Len(runs) :
    runs[k].pc = "convertImage" =>
      /\ Cardinality(DOMAIN runs[k].flight) <= 1
      /\ DOMAIN runs[k].flight \subseteq {runs[k].i}
      /\ runs[k].started = Range(1, runs[k].i)
      /\ Len(runs[k].converted) = runs[k].i - 1
      /\ \A c \in 1..Len(runs[k].converted) :
           runs[k].converted[c].h = runs[k].snap[c].h

\* C5 witness: the second file's transform is in flight, the first is complete
C5_Witness ==
  \E k \in 1..Len(runs) :
    /\ runs[k].i = 2
    /\ 2 \in DOMAIN runs[k].flight
    /\ Len(runs[k].converted) = 1

\* C6: at most one run of handleConversion / handleConvert is in flight.
C6_OneRunAtATime == Len(runs) <= 1

\* C6 witness: a run is in flight over tracked files and the convert button
\* of the mounted component is disabled
C6_Witness ==
  /\ mounted
  /\ Len(runs) = 1
  /\ Len(files) > 0
  /\ converting
  /\ ~ButtonEnabled

\* C7 (as claimed): the status of a tracked file only moves pending ->
\* converting -> done or error, and a file that is done or error keeps its
\* status.
C7_StatusOnlyForward ==
  [][\A j \in 1..Len(files) : \A x \in 1..Len(files') :
       files[j].h = files'[x].h =>
         \/ files'[x].status = files[j].status
         \/ <<files[j].status, files'[x].status>> \in
              {<<"pending", "converting">>, <<"converting", "done">>,
               <<"converting", "error">>}]_vars

\* C8 (as claimed): when a run of handleConversion ends in which some files
\* were converted and one failed, the failed file has status error and every
\* converted file has status done.
C8_PerFileOutcome ==
  [][(variant = Real /\ RunEnds /\ ended'.failedAt # 0
        /\ Len(runs[1].converted) > 0) =>
       \A x \in 1..Len(files') :
         /\ files'[x].h = runs[1].snap[runs[1].i].h => files'[x].status = "error"
         /\ (\E c \in 1..Len(runs[1].converted) :
               runs[1].converted[c].h = files'[x].h) => files'[x].status = "done"]_vars

\* C9 (as claimed): when a run of handleConversion ends, the downloads are
\* those of the files whose convertImage resolved, and of no other file.
C9_DeliveredIffConverted ==
  [][(variant = Real /\ RunEnds) =>
       /\ \A c \in 1..Len(runs[1].converted) :
            runs[1].converted[c].h \in DeliveredHandles(ended')
       /\ \A j \in 1..Len(runs[1].snap) :
            runs[1].snap[j].h \in DeliveredHandles(ended')
              => runs[1].snap[j].kind = "ok"]_vars

\* C10: every file of a run is encoded as, and named with, the target format
\* that was selected when the run started, whatever is selected meanwhile.
C10_FormatFixedPerRun ==
  /\ \A k \in 1..Len(runs) :
       /\ \A c \in 1..Len(runs[k].converted) :
            /\ runs[k].converted[c].type = runs[k].fmt
            /\ runs[k].converted[c].ext = runs[k].fmt
       /\ \A j \in DOMAIN runs[k].flight :
            runs[k].flight[j].phase = "encode" => runs[k].flight[j].enc = runs[k].fmt
  /\ \A d \in 1..Len(ended.delivered) : \A x \in 1..Len(ended.delivered) :
       /\ ended.delivered[d].type = ended.delivered[d].ext
       /\ ended.delivered[d].type = ended.delivered[x].type

\* C10 witness: the target format was changed during a run that has converted
\* one file and is encoding the next
C10_Witness ==
  \E k \in 1..Len(runs) :
    /\ Len(runs[k].converted) >= 1
    /\ targetFormat # runs[k].fmt
    /\ runs[k].i \in DOMAIN runs[k].flight
    /\ runs[k].flight[runs[k].i].phase = "encode"

\* The maxWidth x maxHeight settings the claims about the canvas are tried
\* with: the example's, and the default of the versions with the settings
BoundsTried == {<<800, 600>>, <<DefaultMaxWidth, DefaultMaxHeight>>}

\* Every canvas that convertImage has encoded or is encoding, with the image
\* drawn on it
Encoded ==
  UNION {{[img |-> runs[k].snap[j], canvas |-> runs[k].flight[j].canvas] :
            j \in {x \in DOMAIN runs[k].flight :
                     runs[k].flight[x].phase = "encode"}}
           \cup {[img |-> runs[k].snap[c],
                  canvas |-> runs[k].converted[c].canvas] :
                   c \in 1..Len(runs[k].converted)} :
         k \in 1..Len(runs)}

\* C11 (as claimed): for an image wider than maxWidth or higher than
\* maxHeight, the canvas that convertImage encodes is at most maxWidth x
\* maxHeight, and its aspect ratio is that of the image within one pixel.
C11_ResizedWithinBounds ==
  \A e \in Encoded : \A b \in BoundsTried :
    (e.img.width > b[1] \/ e.img.height > b[2]) =>
      /\ e.canvas[1] <= b[1]
      /\ e.canvas[2] <= b[2]
      /\ (e.canvas[1] - 1) * e.img.height <= e.canvas[2] * e.img.width
      /\ e.canvas[2] * e.img.width <= (e.canvas[1] + 1) * e.img.height

\* C12: for an image of at most maxWidth x maxHeight, the canvas that
\* convertImage encodes has exactly the size of the image.
C12_NativeSizeWithinBounds ==
  \A e \in Encoded : \A b \in BoundsTried :
    (e.img.width <= b[1] /\ e.img.height <= b[2]) =>
      e.canvas = <<e.img.width, e.img.height>>

\* C12 witness: an image smaller than 800 x 600 has been encoded
C12_Witness ==
  \E e \in Encoded :
    /\ e.img.width < 800
    /\ e.img.height < 600
    /\ e.canvas[1] > 0

\* The positions of '.' in name
Dots(name) == {j \in 1..Len(name) : name[j] = "."}

\* The part of name before its first '.', the whole name if it has none
BeforeFirstDot(name) ==
  IF Dots(name) = {} THEN name
  ELSE SubSeq(name, 1, (CHOOSE j \in Dots(name) : \A x \in Dots(name) : j <= x) - 1)

\* C13: every download of handleConversion is named with the part of the
\* file's name before its first '.', then '.', then the format it was
\* encoded as.
C13_NameIsStemDotFormat ==
  \A d \in 1..Len(ended.delivered) : \A j \in 1..Len(files) :
    files[j].h = ended.delivered[d].h =>
      ended.delivered[d].name =
        BeforeFirstDot(files[j].name) \o <<".", ended.delivered[d].type>>

\* C13 witness: a file whose name has two dots after a first character was
\* converted and downloaded
C13_Witness ==
  \E d \in 1..Len(ended.delivered) : \E j \in 1..Len(files) :
    /\ files[j].h = ended.delivered[d].h
    /\ Cardinality(Dots(files[j].name)) = 2
    /\ files[j].name[1] # "."
    /\ Len(ended.delivered[d].name) = 3

\* C14 (as claimed): a removal issued for a file that is no longer tracked
\* (the second click of a double click on its remove button) changes neither
\* the tracked files nor any preview URL.
C14_RemoveUntrackedIsNoOp ==
  [][(/\ pendingClick # NoClick
      /\ pendingClick' = NoClick
      /\ \A j \in 1..Len(files) : files[j].h # pendingClick.h)
       => (files' = files /\ revoked' = revoked)]_vars

\* C15 (as claimed): a file that enters the tracked files (with the preview
\* URL allocated for it) is at most 10 MB large and of an accepted type.
C15_OversizeOrWrongTypeRejected ==
  [][\A j \in 1..Len(files') :
       files'[j].h >= nextHandle =>
         /\ files'[j].size <= MaxFileSize
         /\ Accepts(files'[j])]_vars

\* C16 (as claimed): the files that a call of onDrop adds to the tracked
\* files have status pending and a preview URL that is allocated by this
\* call, not revoked, and held by no other tracked file.
C16_AcceptedPendingWithFreshHandle ==
  [][\A accepted \in Drops :
       onDrop(accepted) =>
         \A j \in (Len(files') - Len(accepted) + 1)..Len(files') :
           /\ files'[j].status = "pending"
           /\ files'[j].h >= nextHandle
           /\ files'[j].h < nextHandle'
           /\ revoked'[files'[j].h] = 0
           /\ \A x \in 1..Len(files') : x # j => files'[x].h # files'[j].h]_vars

\* x is a / b to within 1 / b
Near(x, a, b) == FLeq(FDiv(a - 1, b), x) /\ FLeq(x, FDiv(a + 1, b))

\* The step in which the one run in flight finishes the file at its index:
\* the file is converted or fails (handleConversion), or its timer fires
\* (handleConvert); the run goes on with the next file or ends.  The loop of
\* the Old version finishes no file.
FileFinishes ==
  /\ Len(runs) = 1
  /\ runs[1].pc \in {"convertImage", "timer"}
  /\ \/ runs' = <<>>
     \/ Len(runs') = 1 /\ runs'[1].i = runs[1].i + 1

\* C17 (as claimed): while the component is mounted and a run over n files
\* is in flight, the step that finishes the k-th file, whatever its outcome,
\* leaves progress at 100 * k / n, and no other step changes progress.
C17_ProgressIsShareOfFinishedFiles ==
  [][(mounted /\ Len(runs) = 1) =>
       /\ FileFinishes =>
            Near(progress', 100 * runs[1].i, Len(runs[1].snap))
       /\ progress' # progress => FileFinishes]_vars

\* C18 (as claimed): the only file with status converting is the one at the
\* index of the run in flight; a file the run has not reached is pending.
C18_OnlyStartedFileConverting ==
  \A j \in 1..Len(files) :
    files[j].status = "converting" =>
      /\ Len(runs) = 1
      /\ runs[1].i = j
      /\ \A x \in 1..Len(files) : files[x].status = "converting" => x = j

\* C19 (as claimed): once the component is unmounted, a run in flight moves
\* on to no further file: the file at its index may finish, and the run
\* then ends.
C19_NoFileStartedAfterUnmount ==
  [][(~mounted /\ Len(runs) = 1 /\ Len(runs') = 1) =>
       runs'[1].i = runs[1].i]_vars

PositiveInteger(x) == x.den = 1 /\ x.num >= 1

\* C21 (as claimed): the format is jpeg, png or webp, and in the versions
\* with the settings quality is an integer from 1 to 100 and maxWidth and
\* maxHeight are positive integers.
C21_SettingsInDomain ==
  /\ targetFormat \in Formats
  /\ variant \in WithSettings =>
       /\ quality \in 1..100
       /\ PositiveInteger(maxWidth)
       /\ PositiveInteger(maxHeight)

\* C22 (as claimed): a tracked file keeps the name, the size and the media
\* type it was dropped with in every step, the status updates of
\* handleConvert included (a file is the same file when it has the same
\* preview URL).
C22_MetadataImmutable ==
  [][\A j \in 1..Len(files) : \A x \in 1..Len(files') :
       files[j].h = files'[x].h =>
         /\ files'[x].name = files[j].name
         /\ files'[x].size = files[j].size
         /\ files'[x].type = files[j].type]_vars

\* The preview URLs of the files a run started with
SnapHandles(r) == {r.snap[j].h : j \in 1..Len(r.snap)}

\* C23 (as claimed): in every step of a run in flight, a tracked file that
\* the run did not start with (it was dropped during the run) has the status
\* it was dropped with, the run's index stays within the files it started
\* with, and the progress set when the run moves on to its next file is the
\* share of the files it started with.
C23_RunOverFixedFileSet ==
  [][Len(runs) = 1 =>
       /\ \A x \in 1..Len(files') :
            files'[x].h \notin SnapHandles(runs[1])
              => files'[x].status \in {"pending", "none"}
       /\ Len(runs') = 1 => runs'[1].i <= Len(runs[1].snap)
       /\ (mounted /\ Len(runs') = 1 /\ runs'[1].i = runs[1].i + 1)
            => Near(progress', 100 * runs[1].i, Len(runs[1].snap))]_vars

\* C24 (as claimed): when a run of handleConvert ends in the mounted
\* component, no tracked file has status converting, and every tracked file
\* with status done is one of the files the run went through.
C24_NoFileLeftConverting ==
  [][(variant \in {Sim, Logged} /\ mounted /\ RunEnds) =>
       \A x \in 1..Len(files') :
         /\ files'[x].status # "converting"
         /\ files'[x].status = "done" => files'[x].h \in SnapHandles(runs[1])]_vars

\* C25 (as claimed): every convertImage that a run starts reads a preview URL
\* that is not revoked, and a run of handleConversion that fails fails on a
\* file the browser cannot decode or encode.
C25_NeverDecodesRevokedHandle ==
  [][/\ \A k \in 1..Len(runs') : \A j \in DOMAIN runs'[k].flight :
          runs'[k].flight[j].phase = "load" => runs'[k].flight[j].urlOk
     /\ (variant = Real /\ RunEnds /\ ended'.failedAt # 0)
          => runs[1].snap[ended'.failedAt].kind # "ok"]_vars

\* C26: when a run of handleConversion ends in the mounted component,
\* whether its last file was converted or one of its files failed, converting
\* is false and progress is 0; and while no file is tracked and no run is in
\* flight, no step changes converting, progress or the runs.
C26_IdleAfterEveryExit ==
  [][/\ (variant = Real /\ mounted /\ RunEnds)
          => (converting' = FALSE /\ progress' = FZero)
     /\ (variant = Real /\ Len(files) = 0 /\ runs = <<>>)
          => (converting' = converting /\ progress' = progress
              /\ runs' = runs /\ ended' = ended)]_vars

\* C26 witness: a run over two files has ended on the failure of its second
\* file, after progress had been set to 50, and the component is idle
C26_Witness ==
  /\ variant = Real
  /\ mounted
  /\ runs = <<>>
  /\ ended.n = 2
  /\ ended.failedAt = 2
  /\ ~converting
  /\ progress = FZero

\* C27 (as claimed): after a call of onDrop the tracked files are those
\* tracked before it, unchanged and in the same order, followed by the
\* accepted files in the order of the drop.
C27_OnDropOnlyAppends ==
  [][\A accepted \in Drops :
       onDrop(accepted) =>
         /\ Len(files') = Len(files) + Len(accepted)
         /\ SubSeq(files', 1, Len(files)) = files
         /\ \A j \in 1..Len(accepted) :
              /\ files'[Len(files) + j].kind = accepted[j].kind
              /\ files'[Len(files) + j].name = accepted[j].name]_vars

====
